---- MODULE Spec2Model ----
(***************************************************************************)
(* The FreeCodeCamp scraper: the POST /api/scrape route, its background    *)
(* task, and FCCScraper (discovery, windowed fetching, reconciliation of   *)
(* scraped content against the store, job bookkeeping).                    *)
(*                                                                         *)
(* Strings are sequences of tokens; a URL is the tokens of its origin      *)
(* followed by the tokens of its path.  Every `await` of the code is a     *)
(* step of its own, so requests interleave at exactly the code's           *)
(* suspension points.  A call to the store ends in one of three ways: it   *)
(* succeeds ("ok"), it resolves with an error object ("error"), or the     *)
(* promise rejects ("throw").                                              *)
(***************************************************************************)
EXTENDS Integers, Sequences, FiniteSets, TLC

\* ------------------------------------------------------------------ bounds
MaxJobs == 3           \* POST requests in one behaviour
MaxActive == 2         \* requests in progress at the same time
MaxLinks == 3          \* anchors on a listing page of the pipeline
MaxWork == 3           \* requests * discovered URLs, when requests overlap
MaxStoreFailures == 1  \* store calls that fail in one behaviour
MaxAnchors == 52       \* anchors on a listing page given to getCertificationPages alone
MaxCards == 3          \* article cards the topic listings show in one cron run
MaxRuns == 2           \* requests, one after another, when pages change their title
MaxWords == 3          \* words of a page's content, when the keywords are looked at
MaxSnippet == 12       \* characters of a code snippet, without the surrounding blanks

\* ------------------------------------------------------- program constants
DefaultConcurrency == 3
PageLimit == 50

Requests == 1..MaxJobs

Min(a, b) == IF a <= b THEN a ELSE b

RECURSIVE Gcd(_, _)
Gcd(a, b) == IF b = 0 THEN a ELSE Gcd(b, a % b)

\* A non-negative rational in lowest terms: the value of a JavaScript number
\* that is the quotient of two small integers.
Ratio(n, d) == [num |-> n \div Gcd(n, d), den |-> d \div Gcd(n, d)]
RatioLeq(a, b) == a.num * b.den <= b.num * a.den

\* ----------------------------------------------------------------- strings
FCC_BASE == <<"http", "s://www.freecodecamp.org">>

StartsWith(s, p) == Len(s) >= Len(p) /\ SubSeq(s, 1, Len(p)) = p
Includes(s, tok) == \E n \in 1..Len(s) : s[n] = tok

\* crypto.createHash('sha256').update(content).digest('hex')
Sha256(content) == <<"sha256", content>>

\* ---------------------------------------------------------- certifications
Cert(slug, path) == [slug |-> slug, url |-> FCC_BASE \o <<"/learn/", path>>]

getFCCCertifications ==
  << Cert("responsive-web-design", "2022/responsive-web-design/"),
     Cert("javascript-algorithms", "javascript-algorithms-and-data-structures-v8/"),
     Cert("front-end-libraries", "front-end-development-libraries/"),
     Cert("data-visualization", "data-visualization/"),
     Cert("back-end-development-and-apis", "back-end-development-and-apis/"),
     Cert("scientific-computing-with-python", "scientific-computing-with-python-v7/"),
     Cert("data-analysis-with-python", "data-analysis-with-python-v7/"),
     Cert("machine-learning-with-python", "machine-learning-with-python-v7/") >>

NoCert == [slug |-> "", url |-> <<>>]

\* Variant: a slug that matches nothing falls back to the first certification.
FindCertOrFirst(certSlug) ==
  LET hits == {n \in 1..Len(getFCCCertifications) :
                 getFCCCertifications[n].slug = certSlug}
  IN IF hits = {} THEN getFCCCertifications[1]
     ELSE getFCCCertifications[CHOOSE n \in hits : \A m \in hits : n <= m]

\* certs.find((c) => c.slug === certSlug): the first match, or undefined
FindCert(certSlug) ==
  LET hits == {n \in 1..Len(getFCCCertifications) :
                 getFCCCertifications[n].slug = certSlug}
  IN IF hits = {} THEN NoCert
     ELSE getFCCCertifications[CHOOSE n \in hits : \A m \in hits : n <= m]

\* The certSlug of a request body: absent, a known slug, an unknown slug.
Slugs == {"", "responsive-web-design", "no-such-certification"}

\* --------------------------------------------------------------- discovery
\* The anchors of a listing page, in document order, each by its href.
Link(n) == <<"/learn/", "2022/responsive-web-design/", ToString(n)>>
RootLink == <<"/learn/", "2022/responsive-web-design/">>
Foreign == <<"/news/", "x">>
Absolute(n) == FCC_BASE \o Link(n)

\* Page families: n anchors, all distinct; each link twice over; links mixed
\* with anchors the selector skips and with a link back to the listing itself.
PageDistinct(n) == [a \in 1..n |-> Link(a)]
PageRepeat(n) == [a \in 1..n |-> Link((a + 1) \div 2)]
PageMixed(n) ==
  [a \in 1..n |-> CASE a % 4 = 1 -> Link(a)
                    [] a % 4 = 2 -> Foreign
                    [] a % 4 = 3 -> RootLink
                    [] OTHER -> Absolute(a)]
\* Each link twice over, and after each pair a link back to the listing.
PageBack(n) ==
  [a \in 1..n |-> CASE a % 3 = 1 -> Link(a)
                    [] a % 3 = 2 -> Link(a - 1)
                    [] OTHER -> RootLink]
Pages(maxn) ==
  {PageDistinct(n) : n \in 0..maxn} \cup {PageRepeat(n) : n \in 0..maxn}
    \cup {PageMixed(n) : n \in 0..maxn}

\* $('a[href^="/learn/"]')
Selected(href) == StartsWith(href, <<"/learn/">>)

\* Variant: the list is searched for the href as written, not as resolved.
PushLinkUnresolved(urls, href) ==
  IF href /= <<>> /\ Includes(href, "/learn/")
  THEN LET fullUrl == IF StartsWith(href, <<"http">>) THEN href ELSE FCC_BASE \o href
       IN IF Includes(urls, href) THEN urls ELSE Append(urls, fullUrl)
  ELSE urls

\* The body of the .each callback: resolve the href, push it when new.
PushLink(urls, href) ==
  IF href /= <<>> /\ Includes(href, "/learn/")
  THEN LET fullUrl == IF StartsWith(href, <<"http">>) THEN href ELSE FCC_BASE \o href
       IN IF Includes(urls, fullUrl) THEN urls ELSE Append(urls, fullUrl)
  ELSE urls

\* .each over the anchors from..to of the page, in document order, starting
\* with the list urls.  The range is halved, and the first half's list is
\* looked at before the second half starts, to keep the evaluation shallow.
RECURSIVE EachLink(_, _, _, _)
EachLink(page, from, to, urls) ==
  IF from > to THEN urls
  ELSE IF from = to
       THEN IF Selected(page[from]) THEN PushLink(urls, page[from]) ELSE urls
       ELSE LET mid == (from + to) \div 2
                first == EachLink(page, from, mid, urls)
            IN IF Len(first) < Len(urls) THEN first
               ELSE EachLink(page, mid + 1, to, first)

\* Variant: the end of the slice is ignored.
SliceToEnd(s, from, to) == SubSeq(s, from + 1, Len(s))

\* s.slice(from, to)
Slice(s, from, to) == SubSeq(s, from + 1, Min(to, Len(s)))

\* Variant: the catch branch returns no URL at all.
getCertificationPagesOrNone(certUrl, ok, page) ==
  IF ok THEN Slice(EachLink(page, 1, Len(page), <<certUrl>>), 0, PageLimit)
  ELSE <<>>

\* Variant: the list starts empty, without the URL of the listing itself.
getCertificationPagesLinksOnly(certUrl, ok, page) ==
  IF ok THEN Slice(EachLink(page, 1, Len(page), <<>>), 0, PageLimit)
  ELSE <<certUrl>>

\* getCertificationPages: `ok` is whether axios.get and cheerio.load succeeded.
getCertificationPages(certUrl, ok, page) ==
  IF ok THEN Slice(EachLink(page, 1, Len(page), <<certUrl>>), 0, PageLimit)
  ELSE <<certUrl>>

\* ------------------------------------------------------------ construction
\* new FCCScraper(config): config?.concurrency || 3  (0 stands for an absent value)
FCCScraper(concurrency) ==
  [concurrency |-> IF concurrency = 0 THEN DefaultConcurrency ELSE concurrency]

\* ------------------------------------------------------------------- state
VARIABLES
  site,        \* the listing page the site serves for the certification
  config,      \* FCCScraper.config of the shared instance
  sourceId,    \* FCCScraper.sourceId of the shared instance (0 is null)
  sources,     \* knowledge_sources: ids of the rows whose url is FCC_BASE
  touched,     \* knowledge_sources: ids of the rows with last_scraped_at set
  content,     \* knowledge_content: the rows
  jobs,        \* scraping_jobs: the row of each request's job
  proc,        \* each request: its position in POST / scrapeInBackground
               \* / scrapeCertification / saveContent and their locals
  failures,    \* store calls that have failed so far
  log,         \* history: the progress writes of each run, in order
  saves,       \* history: the saveContent calls each run has finished
  reconciled,  \* history: per URL, the hash of its last finished reconciliation
  listing,     \* getCertificationPages on its own: its input and its result
  load,        \* the load explored: requests, overlapping requests, store failures
  cron,        \* the daily cron handler: its position, locals and history
  scraped      \* scrapePage on its own: its input and its result

vars == <<site, config, sourceId, sources, touched, content, jobs, proc,
          failures, log, saves, reconciled, listing, load, cron, scraped>>

Outcomes == {"ok", "error", "throw"}
Contents == {"c1", "c2"}
Titles == {"t1", "t2"}

\* The contents and the titles a page is served with, when the load has n
\* of them.
ContentsOf(n) == IF n = 1 THEN {"c1"} ELSE Contents
TitlesOf(n) == IF n = 1 THEN {"t1"} ELSE Titles

NoRow == [id |-> 0, url |-> <<>>, title |-> "", content_hash |-> <<>>]
NoJob == [status |-> "none", total_urls |-> 0, urls_processed |-> 0,
          urls_failed |-> 0, progress_percentage |-> Ratio(0, 1),
          items_scraped |-> 0, started_at |-> FALSE, completed_at |-> FALSE,
          error_message |-> ""]

\* Variant: the job row is inserted as already running.
NewJobRunning == [NoJob EXCEPT !.status = "running"]

\* The row POST inserts into scraping_jobs.
NewJob == [NoJob EXCEPT !.status = "pending"]

Idle == [pc |-> "idle", certSlug |-> "", response |-> 0, sourceId |-> 0,
         cert |-> NoCert, urls |-> <<>>, i |-> 0, pending |-> {},
         results |-> <<>>, k |-> 0, successCount |-> 0, failedCount |-> 0,
         existing |-> NoRow, repeat |-> FALSE, fresh |-> FALSE, lost |-> FALSE,
         discovery |-> "", faulted |-> {}, delays |-> 0,
         titles |-> <<>>, retitled |-> FALSE, flying |-> 0]

\* .single(): the row when exactly one row matches, otherwise no data.
SingleId(ids) == IF Cardinality(ids) = 1 THEN CHOOSE x \in ids : TRUE ELSE 0
SingleRow(rows) == IF Cardinality(rows) = 1 THEN CHOOSE x \in rows : TRUE ELSE NoRow

RowsOf(url) == {row \in content : row.url = url}

\* What a store call adds to the count of failed calls.
Failed(o) == IF o = "ok" THEN 0 ELSE 1
MayEnd(o) == o = "ok" \/ failures < load.failures

\* The discovered list the site's listing page yields for the known slug.
SiteUrls == getCertificationPages(FindCert("responsive-web-design").url, TRUE, site)

\* ------------------------------------------------------ text, as strings
\* The characters the pages of the model are written in.
Upper == <<"A", "B", "C", "D", "E", "F", "G", "H", "I", "J", "K", "L", "M",
           "N", "O", "P", "Q", "R", "S", "T", "U", "V", "W", "X", "Y", "Z">>
Lower == <<"a", "b", "c", "d", "e", "f", "g", "h", "i", "j", "k", "l", "m",
           "n", "o", "p", "q", "r", "s", "t", "u", "v", "w", "x", "y", "z">>
Digits == <<"0", "1", "2", "3", "4", "5", "6", "7", "8", "9">>
Range(seq) == {seq[n] : n \in 1..Len(seq)}
WhiteSpace == {" ", "\n", "\t"}
\* \w: letters, digits and the underscore
WordChars == Range(Upper) \cup Range(Lower) \cup Range(Digits) \cup {"_"}
\* \W, among the characters of the model
NonWordChars == WhiteSpace \cup {"/", ":", ".", "-", ",", ";", "=", "(", ")", "<", ">", "#", "~"}

CharAt(s, n) == SubSeq(s, n, n)

\* String.prototype.trim
RECURSIVE TrimStart(_)
TrimStart(s) ==
  IF Len(s) > 0 /\ CharAt(s, 1) \in WhiteSpace THEN TrimStart(SubSeq(s, 2, Len(s))) ELSE s
RECURSIVE TrimEnd(_)
TrimEnd(s) ==
  IF Len(s) > 0 /\ CharAt(s, Len(s)) \in WhiteSpace
  THEN TrimEnd(SubSeq(s, 1, Len(s) - 1)) ELSE s
Trim(s) == TrimEnd(TrimStart(s))

\* String.prototype.toLowerCase
LowerChar(c) ==
  IF c \in Range(Upper) THEN Lower[CHOOSE n \in 1..Len(Upper) : Upper[n] = c] ELSE c
RECURSIVE ToLowerCase(_)
ToLowerCase(s) ==
  IF Len(s) = 0 THEN ""
  ELSE IF Len(s) = 1 THEN LowerChar(s)
       ELSE LET mid == Len(s) \div 2
            IN ToLowerCase(SubSeq(s, 1, mid)) \o ToLowerCase(SubSeq(s, mid + 1, Len(s)))

\* The parts of s between its separator characters, one part for each side
\* of each separator (empty between two separators that touch).  The string
\* is halved, and the part the halves share is put together again.
RECURSIVE SplitChars(_, _)
SplitChars(s, seps) ==
  IF Len(s) = 0 THEN <<"">>
  ELSE IF Len(s) = 1 THEN (IF s \in seps THEN <<"", "">> ELSE <<s>>)
       ELSE LET mid == Len(s) \div 2
                left == SplitChars(SubSeq(s, 1, mid), seps)
                right == SplitChars(SubSeq(s, mid + 1, Len(s)), seps)
            IN SubSeq(left, 1, Len(left) - 1)
                 \o <<left[Len(left)] \o right[1]>>
                 \o SubSeq(right, 2, Len(right))

\* String.prototype.split: on one separator character (merge = FALSE), or on
\* a run of separator characters, as with /\s+/ and /\W+/ (merge = TRUE): a
\* run yields no empty part inside the string, only at its two ends.
Split(s, seps, merge) ==
  LET parts == SplitChars(s, seps)
      inner == SubSeq(parts, 2, Len(parts) - 1)
  IN IF merge /\ Len(parts) > 1
     THEN <<parts[1]>> \o SelectSeq(inner, LAMBDA part : part /= "")
            \o <<parts[Len(parts)]>>
     ELSE parts

\* The string a sequence of tokens spells.
RECURSIVE Join(_)
Join(tokens) == IF tokens = <<>> THEN "" ELSE Head(tokens) \o Join(Tail(tokens))

\* -------------------------------------------------------------- scrapePage
\* A document as the selectors of scrapePage see it: its headings in document
\* order, its <title>, the text of its content elements, its paragraphs, and
\* its code elements (pre: a <code> inside a <pre>; the others are
\* .code-editor elements).
EmptyDoc == [headings |-> <<>>, title |-> "", main |-> "", paragraphs |-> <<>>,
             code |-> <<>>]

\* $('h1').first().text()
FirstH1(doc) ==
  LET h1s == SelectSeq(doc.headings, LAMBDA h : h.level = 1)
  IN IF h1s = <<>> THEN "" ELSE h1s[1].text

\* The run of word characters of s that starts at position n.
RECURSIVE WordRun(_, _)
WordRun(s, n) ==
  IF n <= Len(s) /\ CharAt(s, n) \in WordChars
  THEN CharAt(s, n) \o WordRun(s, n + 1) ELSE ""

\* $(elem).attr('class')?.match(/language-(\w+)/)?.[1] || 'javascript'
LanguageOf(class) ==
  LET hits == {n \in 1..Len(class) :
                 /\ n + 9 <= Len(class)
                 /\ SubSeq(class, n, n + 8) = "language-"
                 /\ CharAt(class, n + 9) \in WordChars}
  IN IF hits = {} THEN "javascript"
     ELSE WordRun(class, 9 + CHOOSE n \in hits : \A m \in hits : n <= m)

\* if (code && code.length > 10)
KeepSnippet(code) == code /= "" /\ Len(code) > 10

\* The loop over $('pre code, .code-editor')
CodeSnippets(doc) ==
  LET found == [a \in 1..Len(doc.code) |->
                  [language |-> LanguageOf(doc.code[a].class),
                   code |-> Trim(doc.code[a].text)]]
  IN SelectSeq(found, LAMBDA snippet : KeepSnippet(snippet.code))

\* '#'.repeat(level)
RECURSIVE Repeat(_, _)
Repeat(c, n) == IF n <= 0 THEN "" ELSE c \o Repeat(c, n - 1)

\* The three backquotes of a code fence, written with a character a string
\* of this module can hold.
Fence == "~~~"

\* htmlToMarkdown($)
htmlToMarkdown(doc) ==
  LET hs == SelectSeq(doc.headings, LAMBDA h : h.level \in 1..4)
      pres == SelectSeq(doc.code, LAMBDA e : e.pre)
      headings == [a \in 1..Len(hs) |->
                     Repeat("#", hs[a].level) \o " " \o Trim(hs[a].text) \o "\n\n"]
      paragraphs == [a \in 1..Len(doc.paragraphs) |->
                       Trim(doc.paragraphs[a]) \o "\n\n"]
      blocks == [a \in 1..Len(pres) |->
                   Fence \o LanguageOf(pres[a].class) \o "\n" \o Trim(pres[a].text)
                      \o "\n" \o Fence \o "\n\n"]
  IN Trim(Join(headings) \o Join(paragraphs) \o Join(blocks))

\* ---------------------------------------------------------- extractKeywords
AllDigits(w) == \A n \in 1..Len(w) : CharAt(w, n) \in Range(Digits)
DigitOf(c) == (CHOOSE n \in 1..Len(Digits) : Digits[n] = c) - 1

\* a < b, for strings of digits of the same length
RECURSIVE DigitsLess(_, _)
DigitsLess(a, b) ==
  IF Len(a) = 0 THEN FALSE
  ELSE IF CharAt(a, 1) /= CharAt(b, 1)
       THEN DigitOf(CharAt(a, 1)) < DigitOf(CharAt(b, 1))
       ELSE DigitsLess(SubSeq(a, 2, Len(a)), SubSeq(b, 2, Len(b)))

\* a < b as numbers, for canonical numeric strings
NumericLess(a, b) == Len(a) < Len(b) \/ (Len(a) = Len(b) /\ DigitsLess(a, b))

\* An integer-like property key: a canonical numeric string below 2^32 - 1.
\* An object lists these keys first, in ascending numeric order.
IsIndexKey(w) ==
  /\ Len(w) > 0
  /\ AllDigits(w)
  /\ (CharAt(w, 1) /= "0" \/ Len(w) = 1)
  /\ NumericLess(w, "4294967295")

\* The distinct elements of a sequence, in the order of their first occurrence.
Distinct(seq) ==
  LET firsts == {n \in 1..Len(seq) : \A m \in 1..(n - 1) : seq[m] /= seq[n]}
      nth(k) == CHOOSE n \in firsts : Cardinality({m \in firsts : m < n}) = k - 1
  IN [k \in 1..Cardinality(firsts) |-> seq[nth(k)]]

\* The sequence ordered by `before`, a strict total order on its elements
\* given as the set of the pairs of positions <<m, n>> with m before n.
Ordered(seq, before) ==
  LET rank(n) == Cardinality({m \in 1..Len(seq) : <<m, n>> \in before})
  IN [k \in 1..Len(seq) |-> seq[CHOOSE n \in 1..Len(seq) : rank(n) = k - 1]]

\* Object.entries(frequency): the keys with their counts, integer-like keys
\* first in ascending order, then the other keys in insertion order.
FrequencyEntries(words) ==
  LET keys == Distinct(words)
      indexKeys == SelectSeq(keys, IsIndexKey)
      otherKeys == SelectSeq(keys, LAMBDA w : ~IsIndexKey(w))
      ascending == Ordered(indexKeys,
                           {pair \in (1..Len(indexKeys)) \X (1..Len(indexKeys)) :
                              NumericLess(indexKeys[pair[1]], indexKeys[pair[2]])})
      listed == ascending \o otherKeys
  IN [k \in 1..Len(listed) |->
        <<listed[k], Cardinality({n \in 1..Len(words) : words[n] = listed[k]})>>]

\* extractKeywords(content)
extractKeywords(text) ==
  LET words == SelectSeq(Split(ToLowerCase(text), NonWordChars, TRUE),
                         LAMBDA word : Len(word) > 3)
      entries == FrequencyEntries(words)
      \* .sort((a, b) => b[1] - a[1]): by descending count, stable
      sorted == Ordered(entries,
                        {pair \in (1..Len(entries)) \X (1..Len(entries)) :
                           \/ entries[pair[1]][2] > entries[pair[2]][2]
                           \/ /\ entries[pair[1]][2] = entries[pair[2]][2]
                              /\ pair[1] < pair[2]})
      top == SubSeq(sorted, 1, Min(10, Len(sorted)))
  IN [k \in 1..Len(top) |-> top[k][1]]

\* ------------------------------------------------- scrapePage, the function
\* The value of the catch branch.
ScrapeFailure(url, message) ==
  [success |-> FALSE, url |-> url, title |-> "", content |-> "",
   codeSnippets |-> <<>>, wordCount |-> 0, characterCount |-> 0,
   keywords |-> <<>>, topics |-> <<>>, error |-> message]

\* scrapePage(url): `fetched` is whether axios.get resolved; a page that is
\* not well formed is one cheerio.load either recovers a document from
\* (`recovers`) or throws on.  Empty markup loads as the empty document.
scrapePage(url, fetched, page, recovers) ==
  IF ~fetched THEN ScrapeFailure(url, "request failed")
  ELSE IF page.kind = "malformed" /\ ~recovers THEN ScrapeFailure(url, "parse failed")
  ELSE LET doc == IF page.kind = "empty" THEN EmptyDoc ELSE page.doc
           title == IF Trim(FirstH1(doc)) /= "" THEN Trim(FirstH1(doc))
                    ELSE Trim(doc.title)
           text == Trim(doc.main)
       IN [success |-> TRUE, url |-> url, title |-> title, content |-> text,
           markdown |-> htmlToMarkdown(doc),
           codeSnippets |-> CodeSnippets(doc),
           wordCount |-> Len(SelectSeq(Split(text, WhiteSpace, TRUE),
                                       LAMBDA w : w /= "")),
           characterCount |-> Len(text),
           keywords |-> extractKeywords(text),
           topics |-> SelectSeq(Split(Join(url), {"/"}, FALSE),
                                LAMBDA part : part /= "" /\ part /= "learn")]

NoScrape == [url |-> <<>>, page |-> [kind |-> "empty", doc |-> EmptyDoc],
             fetched |-> FALSE, recovers |-> FALSE,
             result |-> ScrapeFailure(<<>>, ""), done |-> TRUE]

\* ------------------------------------------------- the daily cron handler
FCC_NEWS == FCC_BASE \o <<"/news">>

TOPICS == <<"javascript", "react", "python", "web-development", "programming",
            "data-science", "machine-learning", "nodejs", "typescript", "css">>

\* getArticleLinksForTopic(topic, 20)
ArticleLimit == 20

\* The href of the a-th card of a topic's listing.
Card(topic, a) == <<"/news/", topic, "/", ToString(a)>>

\* The handler before a request: no response yet, no HTTP request made.
CronIdle == [pc |-> "idle", status |-> 0, t |-> 0, links |-> <<>>, j |-> 0,
             requests |-> 0, unspaced |-> 0, totalScraped |-> 0,
             totalErrors |-> 0, source |-> FALSE, stored |-> {}, cards |-> 0]

InitShared ==
  /\ config \in {FCCScraper(c) : c \in 0..DefaultConcurrency}
  /\ sourceId = 0
  /\ sources = {}
  /\ touched = {}
  /\ content = {}
  /\ jobs = [r \in Requests |-> NoJob]
  /\ proc = [r \in Requests |-> Idle]
  /\ failures = 0
  /\ log = [r \in Requests |-> <<>>]
  /\ saves = [r \in Requests |-> <<>>]
  /\ reconciled = {}
  /\ cron = CronIdle

\* One request, whose store calls may fail; every page has one content and
\* one title.
Init ==
  /\ InitShared
  /\ site \in Pages(MaxLinks)
  /\ load = [requests |-> 1, active |-> 1, failures |-> MaxStoreFailures,
             contents |-> 1, titles |-> 1]
  /\ listing = [certUrl |-> <<>>, page |-> <<>>, urls |-> <<>>, done |-> TRUE]
  /\ scraped = NoScrape

\* Several requests, overlapping, on a store that does not fail.
InitJobs ==
  /\ InitShared
  /\ site \in Pages(1)
  /\ load = [requests |-> MaxJobs, active |-> MaxActive, failures |-> 0,
             contents |-> 2, titles |-> 1]
  /\ listing = [certUrl |-> <<>>, page |-> <<>>, urls |-> <<>>, done |-> TRUE]
  /\ scraped = NoScrape

\* ------------------------------------------------- scrapeCertification, helpers
\* Variant: the slice is one element too wide.
BatchWide(urls, i, concurrency) ==
  {p \in 1..Len(urls) : i < p /\ p <= i + concurrency + 1}

\* urls.slice(i, i + concurrency), as the positions of its elements in urls
Batch(urls, i, concurrency) ==
  {p \in 1..Len(urls) : i < p /\ p <= i + concurrency}

\* Variant: the results are taken up without awaiting Promise.all.
NotAwaited(pending) == TRUE

\* Promise.all(batch.map(scrapePage)) has resolved
AllResolved(pending) == pending = {}

\* Variant: the percentage is truncated to a whole number.
ProgressTruncated(processed, total) == Ratio((processed * 100) \div total, 1)

\* (processed / total) * 100
Progress(processed, total) == Ratio(processed * 100, total)

\* Variant: the offset advances by one element, not by one window.
NextOffsetByOne(i, concurrency) == i + 1

\* The loop header of the windows: i += concurrency; i < urls.length
NextOffset(i, concurrency) == i + concurrency

\* Variant: the delay is taken after every window, the last one too.
MoreWindowsOrLast(i, urls, concurrency) == i < Len(urls)

\* The condition of the delay: i + concurrency < urls.length
MoreWindows(i, urls, concurrency) == i + concurrency < Len(urls)

\* Variant: failed items are left out of urls_processed.
ProgressUpdateOfSuccesses(successCount, failedCount, total) ==
  [urls_processed |-> successCount,
   urls_failed |-> failedCount,
   progress_percentage |-> Progress(successCount + failedCount, total),
   items_scraped |-> successCount]

\* The payload of the progress write, from the running counters.
ProgressUpdate(successCount, failedCount, total) ==
  [urls_processed |-> successCount + failedCount,
   urls_failed |-> failedCount,
   progress_percentage |-> Progress(successCount + failedCount, total),
   items_scraped |-> successCount]

\* Start the window at offset i: every scrapePage of the batch is issued.
BeginWindow(l, i) ==
  [l EXCEPT !.i = i, !.pending = Batch(l.urls, i, config.concurrency),
            !.pc = "scrape_pages"]

\* The loop test at offset i: another window, or the final updateJob is issued.
EnterLoop(l, i) ==
  IF i < Len(l.urls) THEN BeginWindow(l, i)
  ELSE [l EXCEPT !.i = i, !.pc = "update_completed", !.flying = @ + 1]

\* The body of `for (const result of results)` up to its first await:
\* a success calls saveContent, a failure counts and goes on to updateJob.
BeginItem(l, k, sid) ==
  IF l.results[k] /= "fail"
  THEN [l EXCEPT !.k = k,
                 !.existing = NoRow,
                 !.pc = IF sid = 0 THEN "save_source" ELSE "save_select"]
  ELSE [l EXCEPT !.k = k, !.failedCount = @ + 1, !.pc = "update_progress",
                 !.flying = @ + 1]

\* Variant: an item whose saveContent has returned is counted as failed.
EndSaveAsFailed(l) ==
  [l EXCEPT !.failedCount = @ + 1, !.pc = "update_progress", !.flying = @ + 1]

\* saveContent has returned: successCount++ and on to updateJob.
EndSave(l) ==
  [l EXCEPT !.successCount = @ + 1, !.pc = "update_progress", !.flying = @ + 1]

\* After the progress write of result k: the next result of the window, the
\* delay before the next window, or the final updateJob.
AfterProgress(l, sid) ==
  IF l.k + 1 \in Batch(l.urls, l.i, config.concurrency)
  THEN BeginItem(l, l.k + 1, sid)
  ELSE IF MoreWindows(l.i, l.urls, config.concurrency)
       THEN [l EXCEPT !.pc = "delay"]
       ELSE EnterLoop(l, NextOffset(l.i, config.concurrency))

\* History: the items in whose saveContent a store call failed or the source
\* id could not be resolved.
Faulted(l, bad) == [l EXCEPT !.faulted = IF bad THEN @ \cup {l.k} ELSE @]

\* History: when saveContent looks the URL up, whether the last finished
\* reconciliation of the URL was of this very content (`repeat`), whether
\* the store has never held this content for the URL (`fresh`), and whether
\* the store holds this content for the URL under another title (`retitled`).
Looked(l) ==
  LET known == <<l.urls[l.k], Sha256(l.results[l.k])>> \in reconciled
  IN [l EXCEPT !.retitled = \E row \in RowsOf(l.urls[l.k]) :
                               /\ row.content_hash = Sha256(l.results[l.k])
                               /\ row.title /= l.titles[l.k],
               !.repeat = known,
               !.fresh = ~known /\ \A row \in RowsOf(l.urls[l.k]) :
                                    row.content_hash /= Sha256(l.results[l.k])]

\* History: a finished saveContent call, the number of rows it wrote, and
\* whether it ran to its end with no store call failing (`clean`).
SaveRecord(l, wrote, clean) ==
  [url |-> l.urls[l.k], title |-> l.titles[l.k],
   content_hash |-> Sha256(l.results[l.k]),
   repeat |-> l.repeat, fresh |-> l.fresh, retitled |-> l.retitled,
   wrote |-> wrote, clean |-> clean]

Reconcile(url, hash) ==
  {pair \in reconciled : pair[1] /= url} \cup {<<url, hash>>}

\* ------------------------------------------------------------------- POST
Started == {r \in Requests : proc[r].pc /= "idle"}
Active == {r \in Started : proc[r].pc /= "done"}

\* A request arrives: request.json(), the certSlug check, and the select of
\* the knowledge source is issued.
PostReceive(r, slug) ==
  /\ proc[r].pc = "idle"
  /\ \A q \in Requests : q < r => q \in Started
  /\ r <= load.requests
  /\ Cardinality(Active) < load.active
  /\ r = 1 \/ r * Len(SiteUrls) <= MaxWork
  /\ proc' = [proc EXCEPT ![r] =
       IF slug = ""
       THEN [@ EXCEPT !.response = 400, !.pc = "done"]
       ELSE [@ EXCEPT !.certSlug = slug, !.pc = "post_select_source"]]
  /\ UNCHANGED <<site, config, sourceId, sources, touched, content, jobs,
                 failures, log, saves, reconciled, listing, load, cron, scraped>>

\* The select of knowledge_sources resolves.
PostSelectSource(r, o) ==
  /\ proc[r].pc = "post_select_source"
  /\ MayEnd(o)
  /\ failures' = failures + Failed(o)
  /\ LET existingSource == IF o = "ok" THEN SingleId(sources) ELSE 0
     IN proc' = [proc EXCEPT ![r] =
          IF o = "throw" THEN [@ EXCEPT !.response = 500, !.pc = "done"]
          ELSE IF existingSource /= 0
               THEN [@ EXCEPT !.sourceId = existingSource, !.pc = "post_insert_job"]
               ELSE [@ EXCEPT !.pc = "post_insert_source"]]
  /\ UNCHANGED <<site, config, sourceId, sources, touched, content, jobs,
                 log, saves, reconciled, listing, load, cron, scraped>>

\* The insert into knowledge_sources resolves.
PostInsertSource(r, o) ==
  /\ proc[r].pc = "post_insert_source"
  /\ MayEnd(o)
  /\ failures' = failures + Failed(o)
  /\ LET id == Cardinality(sources) + 1
     IN IF o = "ok"
        THEN /\ sources' = sources \cup {id}
             /\ proc' = [proc EXCEPT ![r].sourceId = id, ![r].pc = "post_insert_job"]
        ELSE /\ sources' = sources
             /\ proc' = [proc EXCEPT ![r].response = 500, ![r].pc = "done"]
  /\ UNCHANGED <<site, config, sourceId, touched, content, jobs,
                 log, saves, reconciled, listing, load, cron, scraped>>

\* Variant: the result of the insert into scraping_jobs is not looked at.
PostInsertJobUnchecked(r, o) ==
  /\ proc[r].pc = "post_insert_job"
  /\ MayEnd(o)
  /\ failures' = failures + Failed(o)
  /\ jobs' = IF o = "ok" THEN [jobs EXCEPT ![r] = NewJob] ELSE jobs
  /\ proc' = [proc EXCEPT ![r].response = 200, ![r].pc = "find_cert"]
  /\ UNCHANGED <<site, config, sourceId, sources, touched, content,
                 log, saves, reconciled, listing, load, cron, scraped>>

\* The insert into scraping_jobs resolves; scrapeInBackground is called and
\* runs up to its first await, and POST answers.
PostInsertJob(r, o) ==
  /\ proc[r].pc = "post_insert_job"
  /\ MayEnd(o)
  /\ failures' = failures + Failed(o)
  /\ IF o = "ok"
     THEN /\ jobs' = [jobs EXCEPT ![r] = NewJob]
          /\ proc' = [proc EXCEPT ![r].response = 200, ![r].pc = "find_cert"]
     ELSE /\ jobs' = jobs
          /\ proc' = [proc EXCEPT ![r].response = 500, ![r].pc = "done"]
  /\ UNCHANGED <<site, config, sourceId, sources, touched, content,
                 log, saves, reconciled, listing, load, cron, scraped>>

\* ------------------------------------------------------ scrapeInBackground
\* certs.find: an unknown slug throws into the catch handler, a known one
\* enters scrapeCertification, which issues the fetch of the listing page.
FindCertification(r) ==
  /\ proc[r].pc = "find_cert"
  /\ LET cert == FindCert(proc[r].certSlug)
     IN proc' = [proc EXCEPT ![r] =
          IF cert = NoCert THEN [@ EXCEPT !.pc = "catch_update", !.flying = @ + 1]
          ELSE [@ EXCEPT !.cert = cert, !.pc = "get_pages"]]
  /\ UNCHANGED <<site, config, sourceId, sources, touched, content, jobs,
                 failures, log, saves, reconciled, listing, load, cron, scraped>>

\* The fetch of the listing page ends; the updateJob "running" is issued.
GetPages(r, ok) ==
  /\ proc[r].pc = "get_pages"
  /\ LET urls == getCertificationPages(proc[r].cert.url, ok, site)
     IN proc' = [proc EXCEPT ![r].urls = urls,
                             ![r].discovery = IF ok THEN "ok" ELSE "failed",
                             ![r].results = [p \in 1..Len(urls) |-> ""],
                             ![r].titles = [p \in 1..Len(urls) |-> ""],
                             ![r].pc = "update_running",
                             ![r].flying = @ + 1]
  /\ UNCHANGED <<site, config, sourceId, sources, touched, content, jobs,
                 failures, log, saves, reconciled, listing, load, cron, scraped>>

\* updateJob: the update of the job row; a failure is logged and swallowed.
UpdateJob(r, o, updates) ==
  jobs' = IF o = "ok" THEN [jobs EXCEPT ![r] = updates @@ @] ELSE jobs

\* History: an update of the run's job row did not reach the row.
Swallowed(l, o) == [l EXCEPT !.lost = @ \/ o /= "ok"]

\* Variant: the run goes on while its update of the job row is in flight.
StillFlying(l) == l

\* `await` of an update of the job row: the run goes on when the update has
\* resolved.  `flying` counts the run's updates issued and not yet resolved.
Awaited(l) == [l EXCEPT !.flying = @ - 1]

\* The updateJob "running" resolves and the first window starts.
UpdateRunning(r, o) ==
  /\ proc[r].pc = "update_running"
  /\ MayEnd(o)
  /\ failures' = failures + Failed(o)
  /\ UpdateJob(r, o, [total_urls |-> Len(proc[r].urls), status |-> "running",
                      started_at |-> TRUE])
  /\ proc' = [proc EXCEPT ![r] = EnterLoop(Awaited(Swallowed(@, o)), 0)]
  /\ UNCHANGED <<site, config, sourceId, sources, touched, content,
                 log, saves, reconciled, listing, load, cron, scraped>>

\* One scrapePage of the window ends: with the page's title and content, or
\* with the failure value.  When it was the last one, Promise.all resolves
\* and the loop over the results starts.
ScrapePage(r, p, result, title) ==
  /\ proc[r].pc = "scrape_pages"
  /\ p \in proc[r].pending
  /\ IF result = "fail"
     THEN title = ""
     ELSE result \in ContentsOf(load.contents) /\ title \in TitlesOf(load.titles)
  /\ LET l == [proc[r] EXCEPT !.results[p] = result, !.titles[p] = title,
                              !.pending = @ \ {p}]
     IN proc' = [proc EXCEPT ![r] =
          IF AllResolved(l.pending) THEN BeginItem(l, l.i + 1, sourceId) ELSE l]
  /\ UNCHANGED <<site, config, sourceId, sources, touched, content, jobs,
                 failures, log, saves, reconciled, listing, load, cron, scraped>>

\* ------------------------------------------------------------- saveContent
\* The select of the knowledge source resolves: this.sourceId = source?.id || null,
\* then the select of the existing row is issued, or saveContent returns.
SaveSource(r, o) ==
  /\ proc[r].pc = "save_source"
  /\ MayEnd(o)
  /\ failures' = failures + Failed(o)
  /\ LET id == IF o = "ok" THEN SingleId(sources) ELSE 0
         returns == o = "throw" \/ id = 0
     IN /\ sourceId' = IF o = "throw" THEN sourceId ELSE id
        /\ proc' = [proc EXCEPT ![r] =
             IF returns THEN EndSave(Faulted(@, TRUE))
             ELSE [@ EXCEPT !.pc = "save_select"]]
        /\ saves' = IF returns
                    THEN [saves EXCEPT ![r] = Append(@, SaveRecord(proc[r], 0, FALSE))]
                    ELSE saves
  /\ UNCHANGED <<site, config, sources, touched, content, jobs,
                 log, reconciled, listing, load, cron, scraped>>

\* The select of the existing row resolves: an equal hash returns, anything
\* else issues the update (a row was found) or the insert.
SaveSelect(r, o) ==
  /\ proc[r].pc = "save_select"
  /\ MayEnd(o)
  /\ failures' = failures + Failed(o)
  /\ LET l == Faulted(Looked(proc[r]), o /= "ok")
         existing == IF o = "ok" THEN SingleRow(RowsOf(l.urls[l.k])) ELSE NoRow
         same == existing /= NoRow /\ existing.content_hash = Sha256(l.results[l.k])
     IN /\ proc' = [proc EXCEPT ![r] =
             IF o = "throw" \/ same THEN EndSave(l)
             ELSE [l EXCEPT !.existing = existing, !.pc = "save_write"]]
        /\ saves' = IF o = "throw" \/ same
                    THEN [saves EXCEPT ![r] =
                            Append(@, SaveRecord(l, 0, same /\ failures = 0))]
                    ELSE saves
        /\ reconciled' = IF same /\ o = "ok"
                         THEN Reconcile(l.urls[l.k], Sha256(l.results[l.k]))
                         ELSE reconciled
  /\ UNCHANGED <<site, config, sourceId, sources, touched, content, jobs,
                 log, listing, load, cron, scraped>>

\* contentData, as far as the store's rows are modelled
ContentData(id, url, title, contentHash) ==
  [id |-> id, url |-> url, title |-> title, content_hash |-> contentHash]

\* from('knowledge_content').update(contentData).eq('id', existing.id)
UpdateContent(rows, id, url, title, contentHash) ==
  {IF row.id = id THEN ContentData(id, url, title, contentHash) ELSE row : row \in rows}

\* from('knowledge_content').insert(contentData)
InsertContent(rows, url, title, contentHash) ==
  rows \cup {ContentData(Cardinality(rows) + 1, url, title, contentHash)}

\* The update or the insert resolves and saveContent returns.
SaveWrite(r, o) ==
  /\ proc[r].pc = "save_write"
  /\ MayEnd(o)
  /\ failures' = failures + Failed(o)
  /\ LET l == proc[r]
         url == l.urls[l.k]
         hash == Sha256(l.results[l.k])
     IN /\ content' = IF o /= "ok" THEN content
                      ELSE IF l.existing /= NoRow
                           THEN UpdateContent(content, l.existing.id, url,
                                              l.titles[l.k], hash)
                           ELSE InsertContent(content, url, l.titles[l.k], hash)
        /\ saves' = [saves EXCEPT ![r] =
                       Append(@, SaveRecord(l, IF o = "ok" THEN 1 ELSE 0,
                                            o = "ok" /\ failures = 0))]
        /\ reconciled' = IF o = "ok" THEN Reconcile(url, hash) ELSE reconciled
  /\ proc' = [proc EXCEPT ![r] = EndSave(Faulted(@, o /= "ok"))]
  /\ UNCHANGED <<site, config, sourceId, sources, touched, jobs, log, listing, load, cron, scraped>>

\* ------------------------------------------- scrapeCertification, continued
\* The progress write of result k resolves; the loop goes on.
UpdateProgress(r, o) ==
  /\ proc[r].pc = "update_progress"
  /\ MayEnd(o)
  /\ failures' = failures + Failed(o)
  /\ LET l == proc[r]
         updates == ProgressUpdate(l.successCount, l.failedCount, Len(l.urls))
     IN /\ UpdateJob(r, o, updates)
        /\ log' = [log EXCEPT ![r] = Append(@, [item |-> l.k] @@ updates)]
  /\ proc' = [proc EXCEPT ![r] = AfterProgress(Awaited(Swallowed(@, o)), sourceId)]
  /\ UNCHANGED <<site, config, sourceId, sources, touched, content,
                 saves, reconciled, listing, load, cron, scraped>>

\* this.delay(delayMs) elapses and the next window starts.
Delay(r) ==
  /\ proc[r].pc = "delay"
  /\ proc' = [proc EXCEPT ![r] =
                EnterLoop([@ EXCEPT !.delays = @ + 1],
                          NextOffset(@.i, config.concurrency))]
  /\ UNCHANGED <<site, config, sourceId, sources, touched, content, jobs,
                 failures, log, saves, reconciled, listing, load, cron, scraped>>

\* The updateJob "completed" resolves; scrapeCertification returns and
\* scrapeInBackground issues the update of the source.
UpdateCompleted(r, o) ==
  /\ proc[r].pc = "update_completed"
  /\ MayEnd(o)
  /\ failures' = failures + Failed(o)
  /\ UpdateJob(r, o, [status |-> "completed", completed_at |-> TRUE])
  /\ proc' = [proc EXCEPT ![r] = [Awaited(Swallowed(@, o)) EXCEPT !.pc = "update_source"]]
  /\ UNCHANGED <<site, config, sourceId, sources, touched, content,
                 log, saves, reconciled, listing, load, cron, scraped>>

\* ------------------------------------------- scrapeInBackground, continued
\* The update of last_scraped_at resolves; a rejection is caught by the
\* handler, which issues the update to "failed".
UpdateSource(r, o) ==
  /\ proc[r].pc = "update_source"
  /\ MayEnd(o)
  /\ failures' = failures + Failed(o)
  /\ touched' = IF o = "ok" THEN touched \cup ({proc[r].sourceId} \cap sources)
                ELSE touched
  /\ proc' = [proc EXCEPT ![r].pc = IF o = "throw" THEN "catch_update" ELSE "done",
                          ![r].flying = IF o = "throw" THEN @ + 1 ELSE @]
  /\ UNCHANGED <<site, config, sourceId, sources, content, jobs,
                 log, saves, reconciled, listing, load, cron, scraped>>

\* The catch handler's update of the job row resolves.
CatchUpdate(r, o) ==
  /\ proc[r].pc = "catch_update"
  /\ MayEnd(o)
  /\ failures' = failures + Failed(o)
  /\ jobs' = IF o = "ok"
             THEN [jobs EXCEPT ![r].status = "failed",
                               ![r].error_message =
                                  IF proc[r].cert = NoCert THEN "not found" ELSE "rejected",
                               ![r].completed_at = TRUE]
             ELSE jobs
  /\ proc' = [proc EXCEPT ![r] = [Awaited(Swallowed(@, o)) EXCEPT !.pc = "done"]]
  /\ UNCHANGED <<site, config, sourceId, sources, touched, content,
                 log, saves, reconciled, listing, load, cron, scraped>>

\* ------------------------------------------------------------------- Next
Next ==
  \E r \in Requests :
    \/ \E slug \in Slugs : PostReceive(r, slug)
    \/ \E o \in Outcomes : PostSelectSource(r, o)
    \/ \E o \in Outcomes : PostInsertSource(r, o)
    \/ \E o \in Outcomes : PostInsertJob(r, o)
    \/ FindCertification(r)
    \/ \E ok \in BOOLEAN : GetPages(r, ok)
    \/ \E o \in Outcomes : UpdateRunning(r, o)
    \/ \E p \in 1..(MaxLinks + 1), result \in Contents \cup {"fail"},
          title \in Titles \cup {""} : ScrapePage(r, p, result, title)
    \/ \E o \in Outcomes : SaveSource(r, o)
    \/ \E o \in Outcomes : SaveSelect(r, o)
    \/ \E o \in Outcomes : SaveWrite(r, o)
    \/ \E o \in Outcomes : UpdateProgress(r, o)
    \/ Delay(r)
    \/ \E o \in Outcomes : UpdateCompleted(r, o)
    \/ \E o \in Outcomes : UpdateSource(r, o)
    \/ \E o \in Outcomes : CatchUpdate(r, o)

Spec == Init /\ [][Next]_vars

\* --------------------------------------------- getCertificationPages alone
CertUrls == {getFCCCertifications[n].url : n \in 1..Len(getFCCCertifications)}

InitPages ==
  /\ InitShared
  /\ site = <<>>
  /\ load = [requests |-> 0, active |-> 0, failures |-> 0,
             contents |-> 1, titles |-> 1]
  /\ listing \in [certUrl : CertUrls,
                   page : Pages(MaxAnchors) \cup {PageBack(n) : n \in 0..MaxAnchors},
                   urls : {<<>>}, done : {FALSE}]
  /\ scraped = NoScrape

\* getCertificationPages(certUrl) returns: the listing page was fetched and
\* parsed (ok), or the catch branch ran.
ListPages(ok) ==
  /\ ~listing.done
  /\ listing' = [listing EXCEPT
                   !.urls = getCertificationPages(listing.certUrl, ok, listing.page),
                   !.done = TRUE]
  /\ UNCHANGED <<site, config, sourceId, sources, touched, content, jobs, proc,
                 failures, log, saves, reconciled, load, cron, scraped>>

NextPages == \E ok \in BOOLEAN : ListPages(ok)

SpecPages == InitPages /\ [][NextPages]_vars
SpecJobs == InitJobs /\ [][Next]_vars

\* One request after another, the pages served under either title, on a
\* store of which at most MaxStoreFailures calls fail.
InitRescrape ==
  /\ InitShared
  /\ site \in Pages(1)
  /\ load = [requests |-> MaxRuns, active |-> 1, failures |-> MaxStoreFailures,
             contents |-> 2, titles |-> 2]
  /\ listing = [certUrl |-> <<>>, page |-> <<>>, urls |-> <<>>, done |-> TRUE]
  /\ scraped = NoScrape

SpecRescrape == InitRescrape /\ [][Next]_vars

\* ------------------------------------------------- the daily cron handler
\* href.startsWith('http') ? href : `${FCC_BASE}${href}`
ResolveHref(href) == IF StartsWith(href, <<"http">>) THEN href ELSE FCC_BASE \o href

\* The listing of a topic that shows n cards.
TopicPage(topic, n) == [a \in 1..n |-> Card(topic, a)]

\* getArticleLinksForTopic: `ok` is whether the fetch answered with response.ok
\* and the page was parsed; the cards past the limit are not looked at, and
\* a card without href is skipped.
getArticleLinksForTopic(ok, page, limit) ==
  IF ok
  THEN LET cards == SubSeq(page, 1, Min(Len(page), limit))
           withHref == SelectSeq(cards, LAMBDA href : href /= <<>>)
       IN [a \in 1..Len(withHref) |-> ResolveHref(withHref[a])]
  ELSE <<>>

\* An HTTP request to the site is issued.  History: `unspaced` counts the
\* requests issued with no delay since the request before them.
CronRequest(c, delayed) ==
  [c EXCEPT !.requests = @ + 1,
            !.unspaced = IF delayed \/ c.requests = 0 THEN @ ELSE @ + 1]

\* `for (const topic of TOPICS)` at topic t: the fetch of its listing is
\* issued, or the loop is over and the update of the source is issued.
NextTopic(c, t, delayed) ==
  IF t <= Len(TOPICS)
  THEN CronRequest([c EXCEPT !.t = t, !.links = <<>>, !.j = 0, !.pc = "get_links"],
                   delayed)
  ELSE [c EXCEPT !.t = t, !.pc = "update_source"]

\* `for (const url of links)` at link j: the fetch of the article is issued,
\* or the topic is finished.
NextArticle(c, j, delayed) ==
  IF j <= Len(c.links)
  THEN CronRequest([c EXCEPT !.j = j, !.pc = "scrape_article"], delayed)
  ELSE NextTopic(c, c.t + 1, delayed)

\* handler(req, res) up to its first await: the method and the authorization.
CronReceive(method, authorized) ==
  /\ cron.pc = "idle"
  /\ cron' = IF method \notin {"POST", "GET"}
             THEN [cron EXCEPT !.status = 405, !.pc = "done"]
             ELSE IF ~authorized
                  THEN [cron EXCEPT !.status = 401, !.pc = "done"]
                  ELSE [cron EXCEPT !.pc = "upsert_source"]
  /\ UNCHANGED <<site, config, sourceId, sources, touched, content, jobs, proc,
                 failures, log, saves, reconciled, listing, load, scraped>>

\* The upsert of the source resolves; the loop over the topics starts.
CronUpsertSource(o) ==
  /\ cron.pc = "upsert_source"
  /\ cron' = IF o = "ok"
             THEN NextTopic([cron EXCEPT !.source = TRUE], 1, FALSE)
             ELSE [cron EXCEPT !.status = 500, !.pc = "done"]
  /\ UNCHANGED <<site, config, sourceId, sources, touched, content, jobs, proc,
                 failures, log, saves, reconciled, listing, load, scraped>>

\* The fetch of a topic's listing ends, showing n cards, and the loop over
\* its links starts.
CronGetLinks(ok, n) ==
  /\ cron.pc = "get_links"
  /\ cron.cards + n <= MaxCards
  /\ ok \/ n = 0
  /\ LET links == getArticleLinksForTopic(ok, TopicPage(TOPICS[cron.t], n), ArticleLimit)
     IN cron' = NextArticle([cron EXCEPT !.links = links, !.cards = @ + n], 1, FALSE)
  /\ UNCHANGED <<site, config, sourceId, sources, touched, content, jobs, proc,
                 failures, log, saves, reconciled, listing, load, scraped>>

\* scrapeArticle(url) returns: the article, or null; the article is upserted,
\* or the delay starts.
CronScrapeArticle(found) ==
  /\ cron.pc = "scrape_article"
  /\ cron' = [cron EXCEPT !.pc = IF found THEN "upsert_content" ELSE "rate_limit"]
  /\ UNCHANGED <<site, config, sourceId, sources, touched, content, jobs, proc,
                 failures, log, saves, reconciled, listing, load, scraped>>

\* The upsert of the article resolves: counted, and the delay starts; a
\* rejection is caught by the handler of the link, past the delay.
CronUpsertContent(o) ==
  /\ cron.pc = "upsert_content"
  /\ cron' =
       CASE o = "ok" -> [cron EXCEPT !.stored = @ \cup {cron.links[cron.j]},
                                     !.totalScraped = @ + 1, !.pc = "rate_limit"]
         [] o = "error" -> [cron EXCEPT !.totalErrors = @ + 1, !.pc = "rate_limit"]
         [] OTHER -> NextArticle([cron EXCEPT !.totalErrors = @ + 1], cron.j + 1, FALSE)
  /\ UNCHANGED <<site, config, sourceId, sources, touched, content, jobs, proc,
                 failures, log, saves, reconciled, listing, load, scraped>>

\* setTimeout(resolve, 1000) fires and the loop goes on.
CronRateLimit ==
  /\ cron.pc = "rate_limit"
  /\ cron' = NextArticle(cron, cron.j + 1, TRUE)
  /\ UNCHANGED <<site, config, sourceId, sources, touched, content, jobs, proc,
                 failures, log, saves, reconciled, listing, load, scraped>>

\* The update of the source's statistics resolves and the handler answers.
CronUpdateSource(o) ==
  /\ cron.pc = "update_source"
  /\ cron' = [cron EXCEPT !.status = IF o = "throw" THEN 500 ELSE 200, !.pc = "done"]
  /\ UNCHANGED <<site, config, sourceId, sources, touched, content, jobs, proc,
                 failures, log, saves, reconciled, listing, load, scraped>>

InitCron ==
  /\ InitShared
  /\ site = <<>>
  /\ load = [requests |-> 0, active |-> 0, failures |-> 0,
             contents |-> 1, titles |-> 1]
  /\ listing = [certUrl |-> <<>>, page |-> <<>>, urls |-> <<>>, done |-> TRUE]
  /\ scraped = NoScrape

NextCron ==
  \/ \E method \in {"POST", "GET", "PUT"}, authorized \in BOOLEAN :
       CronReceive(method, authorized)
  \/ \E o \in Outcomes : CronUpsertSource(o)
  \/ \E ok \in BOOLEAN, n \in 0..(MaxCards + 1) : CronGetLinks(ok, n)
  \/ \E found \in BOOLEAN : CronScrapeArticle(found)
  \/ \E o \in Outcomes : CronUpsertContent(o)
  \/ CronRateLimit
  \/ \E o \in Outcomes : CronUpdateSource(o)

SpecCron == InitCron /\ [][NextCron]_vars

\* ------------------------------------------------------- scrapePage alone
\* A code element whose text is n characters between blanks.
CodeElement(n, lead, trail) ==
  [class |-> CASE n % 3 = 0 -> ""
               [] n % 3 = 1 -> "language-html"
               [] OTHER -> "hljs language-css line-numbers",
   text |-> Repeat(" ", lead) \o Repeat("x", n) \o Repeat("\n", trail),
   pre |-> n % 2 = 0]

CodeElements ==
  {CodeElement(n, lead, trail) : n \in 0..MaxSnippet, lead \in {0, 1}, trail \in {0, 2}}

\* A lesson page with the given code elements.
LessonDoc(code) ==
  [headings |-> <<[level |-> 2, text |-> "Step 1"], [level |-> 1, text |-> " Learn HTML "]>>,
   title |-> "Learn HTML | freeCodeCamp.org",
   main |-> " Learn HTML by building a page.\nHTML in 2022: build, learn, build. ",
   paragraphs |-> <<" Build a page. ">>,
   code |-> code]

\* A page without heading and without content element.
BareDoc == [EmptyDoc EXCEPT !.title = " Not found "]

\* Words of a page's content: capitalised, plain, all digits, too short.
KeywordWords == {"Learn", "learn", "html", "2022", "1999", "css"}

\* The content the words make, a comma and a blank between two of them.
RECURSIVE Sentence(_)
Sentence(ws) ==
  IF ws = <<>> THEN ""
  ELSE IF Len(ws) = 1 THEN Head(ws)
  ELSE Head(ws) \o ", " \o Sentence(Tail(ws))

\* A page whose content element holds the words.
WordsDoc(ws) == [LessonDoc(<<>>) EXCEPT !.main = Sentence(ws)]

\* A page of more than ten distinct words.
ManyWordsDoc ==
  WordsDoc(<<"zero", "four", "five", "nine", "2022", "four", "html", "body",
             "head", "main", "form", "nine", "link", "meta", "four">>)

\* The pages given to scrapePage: well formed, empty, not well formed.
ScrapePages ==
  {[kind |-> "html", doc |-> WordsDoc(ws)] :
     ws \in UNION {[1..n -> KeywordWords] : n \in 0..MaxWords}}
    \cup {[kind |-> "html", doc |-> ManyWordsDoc]} \cup
  {[kind |-> "html", doc |-> LessonDoc(<<e>>)] : e \in CodeElements}
    \cup {[kind |-> "html", doc |-> LessonDoc(<<CodeElement(n, 0, 0), CodeElement(n + 1, 1, 2)>>)] :
            n \in 0..(MaxSnippet - 1)}
    \cup {[kind |-> "html", doc |-> BareDoc], [kind |-> "empty", doc |-> EmptyDoc],
          [kind |-> "malformed", doc |-> EmptyDoc], [kind |-> "malformed", doc |-> BareDoc]}

InitScrape ==
  /\ InitShared
  /\ site = <<>>
  /\ load = [requests |-> 0, active |-> 0, failures |-> 0,
             contents |-> 1, titles |-> 1]
  /\ listing = [certUrl |-> <<>>, page |-> <<>>, urls |-> <<>>, done |-> TRUE]
  /\ scraped \in [url : {FindCert("responsive-web-design").url, Absolute(1)},
                  page : ScrapePages, fetched : {FALSE}, recovers : {FALSE},
                  result : {ScrapeFailure(<<>>, "")}, done : {FALSE}]

\* scrapePage(url) returns.
ScrapeOnce(fetched, recovers) ==
  /\ ~scraped.done
  /\ recovers => (fetched /\ scraped.page.kind = "malformed")
  /\ scraped' = [scraped EXCEPT
                   !.fetched = fetched,
                   !.recovers = recovers,
                   !.result = scrapePage(scraped.url, fetched, scraped.page, recovers),
                   !.done = TRUE]
  /\ UNCHANGED <<site, config, sourceId, sources, touched, content, jobs, proc,
                 failures, log, saves, reconciled, listing, load, cron>>

NextScrape == \E fetched \in BOOLEAN, recovers \in BOOLEAN : ScrapeOnce(fetched, recovers)

SpecScrape == InitScrape /\ [][NextScrape]_vars

\* ================================================================== claims
Terminal == {"completed", "failed"}
Ran(r) == proc[r].urls /= <<>>
Total(r) == Len(proc[r].urls)
Resolved(r) == {p \in 1..Total(r) : proc[r].results[p] /= ""}
FailedFetches(r) == {p \in 1..Total(r) : proc[r].results[p] = "fail"}
Window(r) == {p \in 1..Total(r) : proc[r].i < p /\ p <= proc[r].i + config.concurrency}
\* scrapeCertification has left its loop over the windows
LoopDone(r) == Ran(r) /\ proc[r].pc \in {"update_completed", "update_source", "catch_update", "done"}

\* C1: once a job's status is completed or failed, no step changes it.
C1_TerminalIsFinal ==
  [][\A r \in Requests : jobs[r].status \in Terminal => jobs'[r].status = jobs[r].status]_vars

\* C2: the scrapePage fetches of a run that are started and not yet resolved
\* are never more than the configured concurrency.
C2_BoundedFetches ==
  \A r \in Requests : Cardinality(proc[r].pending) <= config.concurrency

\* C2 witness: a second window with as many outstanding fetches as the
\* concurrency allows, more than one.
C2_Witness ==
  \E r \in Requests :
    /\ proc[r].i > 0
    /\ config.concurrency > 1
    /\ Cardinality(proc[r].pending) = config.concurrency

\* C3: the k-th progress write of a run over n URLs carries the percentage
\* 100*k/n, the written percentages never decrease, and the last one written
\* before the job is marked completed is exactly 100.
C3_ProgressPercentage ==
  \A r \in Requests :
    /\ \A k \in 1..Len(log[r]) :
         log[r][k].progress_percentage = Ratio(100 * k, Total(r))
    /\ \A k \in 1..(Len(log[r]) - 1) :
         RatioLeq(log[r][k].progress_percentage, log[r][k + 1].progress_percentage)
    /\ (proc[r].pc = "update_completed" \/ jobs[r].status = "completed") =>
         /\ Len(log[r]) > 0
         /\ log[r][Len(log[r])].progress_percentage = Ratio(100, 1)

\* C3 witness: a completed job over three or more URLs, one of them failed,
\* whose earlier percentages were fractions.
C3_Witness ==
  \E r \in Requests :
    /\ jobs[r].status = "completed"
    /\ Len(log[r]) >= 3
    /\ log[r][1].progress_percentage.den > 1
    /\ FailedFetches(r) /= {}

\* C4: reconciling a URL again with the content its last reconciliation had,
\* no store call failing, writes nothing (and a content the store has never
\* held for the URL is written exactly once).
C4_Idempotent ==
  \A r \in Requests : \A k \in 1..Len(saves[r]) :
    saves[r][k].clean =>
      /\ saves[r][k].fresh => saves[r][k].wrote = 1
      /\ saves[r][k].repeat => saves[r][k].wrote = 0

\* C5: knowledge_content never holds two rows of the same URL.
C5_OneRowPerUrl ==
  \A a \in content : \A b \in content : a.url = b.url => a = b

\* C6: getCertificationPages returns at most 50 URLs, the first of them the
\* URL it was called with.
C6_AtMostFiftyRootFirst ==
  listing.done =>
    /\ Len(listing.urls) <= 50
    /\ Len(listing.urls) >= 1
    /\ listing.urls[1] = listing.certUrl

\* C6 witness: a listing page with more than 50 new links was cut to 50 URLs.
C6_Witness ==
  /\ listing.done
  /\ Len(listing.page) > 50
  /\ Len(listing.urls) = 50

\* C7: whichever fetches fail, a finished run has fetched every discovered
\* URL, its job row says completed, and urls_failed counts the failed fetches
\* (for runs none of whose job writes was lost).
C7_FailuresDoNotHalt ==
  \A r \in Requests :
    (proc[r].pc = "done" /\ Ran(r) /\ ~proc[r].lost) =>
      /\ Resolved(r) = 1..Total(r)
      /\ jobs[r].status = "completed"
      /\ jobs[r].urls_failed = Cardinality(FailedFetches(r))

\* C8: every discovered URL gets exactly one progress write; from one write
\* to the next no counter decreases; in each write urls_processed is
\* urls_failed + items_scraped and at most total_urls.
C8_OneWritePerItem ==
  \A r \in Requests :
    /\ \A j \in 1..Len(log[r]) : \A k \in 1..Len(log[r]) :
         log[r][j].item = log[r][k].item => j = k
    /\ \A k \in 1..Len(log[r]) : log[r][k].item \in 1..Total(r)
    /\ LoopDone(r) => {log[r][k].item : k \in 1..Len(log[r])} = 1..Total(r)
    /\ \A k \in 1..Len(log[r]) :
         /\ log[r][k].urls_processed = log[r][k].urls_failed + log[r][k].items_scraped
         /\ log[r][k].urls_processed <= Total(r)
    /\ \A k \in 1..(Len(log[r]) - 1) :
         /\ log[r][k].urls_processed <= log[r][k + 1].urls_processed
         /\ log[r][k].urls_failed <= log[r][k + 1].urls_failed
         /\ log[r][k].items_scraped <= log[r][k + 1].items_scraped

\* C8 witness: a run over three or more URLs has left its loop, with failed
\* and scraped items both.
C8_Witness ==
  \E r \in Requests :
    /\ LoopDone(r)
    /\ Len(log[r]) >= 3
    /\ log[r][Len(log[r])].urls_failed >= 1
    /\ log[r][Len(log[r])].items_scraped >= 1

\* C9, as claimed: while a fetch of the window is still outstanding, every
\* item of the window whose fetch has finished already has its progress write.
C9_ShownAtOnce ==
  \A r \in Requests :
    proc[r].pending /= {} =>
      \A p \in Window(r) \cap Resolved(r) :
        \E k \in 1..Len(log[r]) : log[r][k].item = p

\* C9, amended: while a fetch of the window is still outstanding, no item of
\* that window has its progress write; the writes are made per item in the
\* order of the list.
C9_AfterWindow ==
  \A r \in Requests :
    /\ proc[r].pending /= {} =>
         \A k \in 1..Len(log[r]) : log[r][k].item \notin Window(r)
    /\ \A k \in 1..Len(log[r]) : log[r][k].item = k

\* C9 witness: a later window with one fetch finished and one outstanding,
\* the earlier windows written.
C9_Witness ==
  \E r \in Requests :
    /\ proc[r].pending /= {}
    /\ Window(r) \cap Resolved(r) /= {}
    /\ Len(log[r]) > 0

\* C10: the windows are the consecutive slices of width C of the discovered
\* list, and while a window's fetches are out every URL of the earlier
\* windows is fetched, reconciled (saveContent returned, for a success) and
\* recorded (its progress write made), and no URL of a later window is fetched.
C10_WindowsInOrder ==
  \A r \in Requests :
    /\ Resolved(r) \cup proc[r].pending \subseteq 1..(proc[r].i + config.concurrency)
    /\ proc[r].pending /= {} =>
         /\ proc[r].i % config.concurrency = 0
         /\ proc[r].pending \cup {p \in Resolved(r) : p > proc[r].i} = Window(r)
         /\ \A p \in 1..proc[r].i :
              /\ p \in Resolved(r)
              /\ \E k \in 1..Len(log[r]) : log[r][k].item = p
              /\ proc[r].results[p] /= "fail" =>
                   \E k \in 1..Len(saves[r]) : saves[r][k].url = proc[r].urls[p]

\* C10 witness: a second window is out after a first one with a success.
C10_Witness ==
  \E r \in Requests :
    /\ proc[r].i > 0
    /\ proc[r].pending /= {}
    /\ Len(saves[r]) > 0

\* The request names a certification that is not in the list.
Unknown(r) ==
  /\ proc[r].certSlug /= ""
  /\ \A n \in 1..Len(getFCCCertifications) :
       getFCCCertifications[n].slug /= proc[r].certSlug

\* C11: a request whose certSlug matches no certification never fetches a
\* page (listing or content), never calls saveContent and never makes a
\* progress write; the store holds no content; and once the handler's update
\* of the job row has gone through, the row says failed, with the captured
\* message and a completion timestamp.
C11_UnknownSlugFails ==
  \A r \in Requests :
    Unknown(r) =>
      /\ proc[r].pc \in {"post_select_source", "post_insert_source",
                         "post_insert_job", "find_cert", "catch_update", "done"}
      /\ proc[r].urls = <<>>
      /\ proc[r].pending = {}
      /\ log[r] = <<>>
      /\ saves[r] = <<>>
      /\ content = {}
      /\ jobs[r].status \in {"none", "pending", "failed"}
      /\ (proc[r].pc = "done" /\ jobs[r] /= NoJob /\ ~proc[r].lost) =>
           /\ jobs[r].status = "failed"
           /\ jobs[r].error_message = "not found"
           /\ jobs[r].completed_at
           /\ jobs[r].total_urls = 0
           /\ ~jobs[r].started_at

\* C11 witness: the job of a request for an unknown certification is failed.
C11_Witness ==
  \E r \in Requests :
    /\ Unknown(r)
    /\ proc[r].pc = "done"
    /\ jobs[r].status = "failed"

\* The run is inside the loop over the windows.
InWindows(r) ==
  proc[r].pc \in {"scrape_pages", "save_source", "save_select", "save_write",
                  "update_progress", "delay"}

\* C12: when the fetch or the parse of the listing page fails, the discovered
\* list is exactly [root URL]; the run goes on to fetch that one URL; the job
\* is not marked failed while the run lasts, and once the running write has
\* gone through the row says running with total_urls = 1.
C12_DiscoveryFailureShrinks ==
  \A r \in Requests :
    proc[r].discovery = "failed" =>
      /\ proc[r].urls = <<proc[r].cert.url>>
      /\ proc[r].pc /= "update_running" => Resolved(r) \cup proc[r].pending = {1}
      /\ (InWindows(r) \/ proc[r].pc \in {"update_running", "update_completed"}) =>
           jobs[r].status \in {"pending", "running"}
      /\ ((InWindows(r) \/ proc[r].pc = "update_completed") /\ ~proc[r].lost) =>
           /\ jobs[r].status = "running"
           /\ jobs[r].total_urls = 1
           /\ jobs[r].started_at

\* C12 witness: the listing page has links, its fetch failed, and the job
\* completed over the one root URL.
C12_Witness ==
  \E r \in Requests :
    /\ proc[r].discovery = "failed"
    /\ Len(SiteUrls) > 1
    /\ jobs[r].status = "completed"
    /\ jobs[r].total_urls = 1
    /\ jobs[r].urls_processed = 1

\* Of the items 1..p of a run, those whose fetch failed, and those fetched.
FailedUpTo(r, p) == {q \in 1..p : proc[r].results[q] = "fail"}
FetchedUpTo(r, p) == {q \in 1..p : proc[r].results[q] /= "fail"}

\* C13: an item whose page was fetched and in whose saveContent a store call
\* failed (or the source id was not resolved) is counted in items_scraped
\* and not in urls_failed: every progress write carries the number of failed
\* fetches as urls_failed and the number of fetched pages as items_scraped.
\* The failure does not leave saveContent (the catch handler is not reached
\* from inside the loop), and the run goes on to write every item.
C13_SaveFailureSwallowed ==
  \A r \in Requests :
    /\ \A p \in proc[r].faulted : proc[r].results[p] \notin {"", "fail"}
    /\ \A k \in 1..Len(log[r]) :
         /\ log[r][k].urls_failed = Cardinality(FailedUpTo(r, log[r][k].item))
         /\ log[r][k].items_scraped = Cardinality(FetchedUpTo(r, log[r][k].item))
    /\ \A p \in proc[r].faulted :
         \/ \E k \in 1..Len(log[r]) : log[r][k].item = p
         \/ /\ proc[r].k = p
            /\ proc[r].pc \in {"save_select", "save_write"}
         \/ /\ proc[r].k = p
            /\ proc[r].pc = "update_progress"
            /\ proc[r].successCount = Cardinality(FetchedUpTo(r, p))
            /\ proc[r].failedCount = Cardinality(FailedUpTo(r, p))
    /\ (proc[r].pc = "catch_update" /\ Ran(r)) => Len(log[r]) = Total(r)
    /\ LoopDone(r) => {log[r][k].item : k \in 1..Len(log[r])} = 1..Total(r)

\* C13 witness: a run has left its loop with no failed fetch, a store call
\* failed in the saveContent of an item that was not the last, and all the
\* items are counted as scraped.
C13_Witness ==
  \E r \in Requests :
    /\ LoopDone(r)
    /\ \E p \in proc[r].faulted : p < Total(r)
    /\ log[r][Len(log[r])].urls_failed = 0
    /\ log[r][Len(log[r])].items_scraped = Total(r)

\* POST has not answered yet.
InPost(r) ==
  proc[r].pc \in {"idle", "post_select_source", "post_insert_source", "post_insert_job"}

\* C14: POST answers 200 only with the source and the job row created; when
\* the creation of the source or of the job row fails it answers 500, and
\* then nothing runs in the background: no certification is looked up, no
\* page is fetched, nothing is saved or recorded.  Without a certSlug it
\* answers 400 and no store call has been made.
C14_PostFailures ==
  \A r \in Requests :
    /\ proc[r].response \in {0, 200, 400, 500}
    /\ proc[r].response = 0 <=> InPost(r)
    /\ proc[r].response = 200 =>
         /\ jobs[r] /= NoJob
         /\ proc[r].sourceId \in sources
    /\ (~InPost(r) /\ proc[r].certSlug /= ""
          /\ (jobs[r] = NoJob \/ proc[r].sourceId \notin sources)) =>
         proc[r].response = 500
    /\ proc[r].response = 500 =>
         /\ proc[r].pc = "done"
         /\ jobs[r] = NoJob
         /\ proc[r].cert = NoCert
         /\ proc[r].discovery = ""
         /\ proc[r].urls = <<>>
         /\ proc[r].pending = {}
         /\ log[r] = <<>>
         /\ saves[r] = <<>>
         /\ content = {}
    /\ proc[r].response = 400 =>
         /\ proc[r].pc = "done"
         /\ proc[r].certSlug = ""
         /\ jobs[r] = NoJob
         /\ sources = {}
         /\ touched = {}
         /\ content = {}
         /\ failures = 0

\* C14 witness: the source was created, the creation of the job row failed,
\* and POST has answered 500.
C14_Witness ==
  \E r \in Requests :
    /\ proc[r].response = 500
    /\ proc[r].sourceId \in sources
    /\ jobs[r] = NoJob

\* C15: the job row exists, pending and with every counter zero, before any
\* fetch (of the listing page or of a content page) is made; the running
\* write, with started_at and total_urls = the number of discovered URLs,
\* has returned before the first scrapePage is issued; so while a scrapePage
\* fetch is outstanding the row says running, unless that write was lost in
\* the store (updateJob swallows the failure).
C15_PendingBeforeFetch ==
  \A r \in Requests :
    /\ jobs[r] = NoJob =>
         /\ proc[r].discovery = ""
         /\ proc[r].urls = <<>>
         /\ proc[r].pending = {}
         /\ proc[r].pc \notin {"get_pages", "update_running", "scrape_pages"}
    /\ proc[r].pc \in {"find_cert", "get_pages", "update_running"} =>
         /\ jobs[r] = NewJob
         /\ jobs[r].status = "pending"
         /\ jobs[r].total_urls = 0 /\ jobs[r].urls_processed = 0
         /\ jobs[r].urls_failed = 0 /\ jobs[r].items_scraped = 0
         /\ jobs[r].progress_percentage = Ratio(0, 1)
         /\ Resolved(r) = {} /\ proc[r].pending = {}
    /\ jobs[r].status = "pending" =>
         /\ ~jobs[r].started_at
         /\ jobs[r].total_urls = 0
         /\ (proc[r].pending /= {} \/ Resolved(r) /= {}) => proc[r].lost
    /\ proc[r].pending /= {} =>
         /\ proc[r].pc = "scrape_pages"
         /\ ~proc[r].lost =>
              /\ jobs[r].status = "running"
              /\ jobs[r].started_at
              /\ jobs[r].total_urls = Total(r)

\* C15 witness: the first window of a run over two or more URLs is out and
\* the job row says running with the discovered total.
C15_Witness ==
  \E r \in Requests :
    /\ proc[r].pending /= {}
    /\ proc[r].i = 0
    /\ Total(r) >= 2
    /\ jobs[r].status = "running"
    /\ jobs[r].total_urls = Total(r)

\* C16: in the cron handler every HTTP request to the site after the first
\* one is issued after a delay of one second since the request before it:
\* no request is issued without such a delay.
C16_OneSecondApart == cron.unspaced = 0

\* The value scrapePage returns from its catch branch: success = false, an
\* error message, zero counts, empty lists.
IsFailureValue(result) ==
  /\ ~result.success
  /\ "error" \in DOMAIN result /\ result.error /= ""
  /\ result.title = "" /\ result.content = ""
  /\ result.wordCount = 0 /\ result.characterCount = 0
  /\ result.codeSnippets = <<>> /\ result.keywords = <<>> /\ result.topics = <<>>

\* C17: scrapePage, given empty markup or markup that is not well formed,
\* returns the failure value.
C17_MalformedIsFailure ==
  (scraped.done /\ scraped.page.kind \in {"empty", "malformed"}) =>
    IsFailureValue(scraped.result)

\* C20: a code element's trimmed text is among the codeSnippets of a
\* successful result exactly when it is at least 10 characters long.
C20_SnippetsFromTen ==
  (scraped.done /\ scraped.result.success) =>
    \A a \in 1..Len(scraped.page.doc.code) :
      LET code == Trim(scraped.page.doc.code[a].text)
      IN (\E b \in 1..Len(scraped.result.codeSnippets) :
            scraped.result.codeSnippets[b].code = code)
           <=> Len(code) >= 10

\* The number of windows of a run: ceil(n / C).
Windows(r) == (Total(r) + config.concurrency - 1) \div config.concurrency

\* C18: a run pauses once between every two consecutive windows and never
\* after the last one: inside the window at offset i it has paused i / C
\* times, a pause starts only when a further window is left, and a run that
\* has left its loop has paused exactly ceil(n / C) - 1 times.
C18_DelaysBetweenWindows ==
  \A r \in Requests :
    /\ InWindows(r) => proc[r].delays = proc[r].i \div config.concurrency
    /\ proc[r].pc = "delay" => proc[r].i + config.concurrency < Total(r)
    /\ LoopDone(r) => proc[r].delays = Windows(r) - 1

\* C18 witness: a run of two or more windows, the last of them not full,
\* has left its loop.
C18_Witness ==
  \E r \in Requests :
    /\ LoopDone(r)
    /\ Windows(r) >= 2
    /\ Total(r) % config.concurrency /= 0
    /\ proc[r].delays = Windows(r) - 1

\* C19: when saveContent looks up a URL of which the store holds a row with
\* the content of the result but another title, it issues no write: the step
\* leaves knowledge_content as it is and the run goes on to the progress
\* write, the call recorded with no write.
C19_SameContentNoWrite ==
  [][\A r \in Requests :
       LET l == proc[r]
       IN (/\ l.pc = "save_select"
           /\ proc'[r] /= l
           /\ \E row \in RowsOf(l.urls[l.k]) :
                /\ row.content_hash = Sha256(l.results[l.k])
                /\ row.title /= l.titles[l.k])
          => /\ content' = content
             /\ proc'[r].pc = "update_progress"
             /\ saves'[r][Len(saves'[r])].wrote = 0]_vars

\* A saveContent call found the content stored under another title and wrote
\* nothing; the row still carries the old title.
C19_Skipped ==
  \E r \in Requests : \E k \in 1..Len(saves[r]) :
    /\ saves[r][k].retitled
    /\ saves[r][k].wrote = 0
    /\ \E row \in content :
         /\ RowsOf(saves[r][k].url) = {row}
         /\ row.content_hash = saves[r][k].content_hash
         /\ row.title /= saves[r][k].title

\* The tokens of a content: its maximal runs of word characters, lower-cased,
\* of at least four characters, in the order of the content.
Tokens(text) ==
  SelectSeq(Split(ToLowerCase(text), NonWordChars, TRUE), LAMBDA w : Len(w) >= 4)
Occurrences(tokens, w) == Cardinality({n \in 1..Len(tokens) : tokens[n] = w})
FirstAt(tokens, w) == CHOOSE n \in 1..Len(tokens) :
                        tokens[n] = w /\ \A m \in 1..(n - 1) : tokens[m] /= w
\* v ranks before w: it occurs more often, or as often and first occurs earlier.
RanksBefore(tokens, v, w) ==
  \/ Occurrences(tokens, v) > Occurrences(tokens, w)
  \/ /\ Occurrences(tokens, v) = Occurrences(tokens, w)
     /\ FirstAt(tokens, v) < FirstAt(tokens, w)

\* C21: the keywords of a successful result are the distinct tokens of its
\* content, at most 10 of them, the more frequent first and among equally
\* frequent ones the one that first occurs earlier first; a token left out
\* ranks after every keyword.  Tokens of digits are tokens like the others.
C21_KeywordsByFrequency ==
  (scraped.done /\ scraped.result.success) =>
    LET tokens == Tokens(scraped.result.content)
        words == {tokens[n] : n \in 1..Len(tokens)}
        keywords == scraped.result.keywords
        kept == {keywords[k] : k \in 1..Len(keywords)}
    IN /\ kept \subseteq words
       /\ Len(keywords) = Min(10, Cardinality(words))
       /\ \A a, b \in 1..Len(keywords) :
            a < b => RanksBefore(tokens, keywords[a], keywords[b])
       /\ \A v \in kept, w \in words \ kept : RanksBefore(tokens, v, w)

\* The anchors of the listing page that resolve to the URL u: the selected
\* ones, their href put after the site's base origin.
AnchorsOf(u) ==
  {n \in 1..Len(listing.page) :
     Selected(listing.page[n]) /\ FCC_BASE \o listing.page[n] = u}
FirstSeen(u) == CHOOSE n \in AnchorsOf(u) : \A m \in AnchorsOf(u) : n <= m

\* C22: the list getCertificationPages returns holds no URL twice; after the
\* root URL come resolved matching links of the page, each where its first
\* anchor stands among the others' first anchors.
C22_DistinctFirstSeen ==
  listing.done =>
    LET urls == listing.urls
    IN /\ Cardinality({Join(urls[k]) : k \in 1..Len(urls)}) = Len(urls)
       /\ urls[1] = listing.certUrl
       /\ \A k \in 2..Len(urls) : AnchorsOf(urls[k]) /= {}
       /\ \A k \in 2..(Len(urls) - 1) : FirstSeen(urls[k]) < FirstSeen(urls[k + 1])

\* C22 witness: a page that links a challenge twice and links back to the
\* listing was listed: the root URL and more.
C22_Witness ==
  /\ listing.done
  /\ Len(listing.urls) >= 3
  /\ \E n \in 1..Len(listing.page) : FCC_BASE \o listing.page[n] = listing.certUrl
  /\ \E k \in 2..Len(listing.urls) : Cardinality(AnchorsOf(listing.urls[k])) >= 2

\* The positions of a run at which it waits for an update of its job row:
\* the running write, a progress write, the completed write, the failed
\* write of scrapeInBackground.
JobWrites == {"update_running", "update_progress", "update_completed", "catch_update"}

\* C23: a run never has two updates of its job row in flight; it has one
\* exactly while it waits for it, so that the next one is issued only after
\* the previous one has resolved, and none is in flight during a fetch, a
\* saveContent or a delay.
C23_OneJobWriteInFlight ==
  \A r \in Requests :
    /\ proc[r].flying \in {0, 1}
    /\ proc[r].flying = 1 <=> proc[r].pc \in JobWrites

\* C23 witness: the running write and a progress write of a run have
\* resolved, and its completed write is in flight.
C23_Witness ==
  \E r \in Requests :
    /\ proc[r].pc = "update_completed"
    /\ Len(log[r]) >= 2
    /\ proc[r].flying = 1

\* scrapeCertification has its list of URLs.
Discovered(r) == proc[r].discovery /= ""

\* C24: the list scrapeCertification works on is never empty, whether the
\* discovery succeeded or failed: every progress percentage is a quotient by
\* a total of at least 1, the first window holds at least one URL, and a run
\* that has left the loop has gone through at least one window.
C24_TotalAtLeastOne ==
  \A r \in Requests :
    Discovered(r) =>
      /\ Len(proc[r].urls) >= 1
      /\ \A k \in 1..Len(log[r]) :
           /\ log[r][k].progress_percentage.den >= 1
           /\ log[r][k].progress_percentage =
                Progress(log[r][k].urls_processed, Len(proc[r].urls))
      /\ proc[r].pc = "scrape_pages" =>
           Batch(proc[r].urls, proc[r].i, config.concurrency) /= {}
      /\ proc[r].pc \in {"update_completed", "update_source", "done"} =>
           /\ proc[r].i >= config.concurrency
           /\ Len(log[r]) >= 1

\* C24 witness: the listing page was fetched and has no link at all; the run
\* went through one window of one URL and wrote 100 percent once.
C24_Witness ==
  \E r \in Requests :
    /\ proc[r].discovery = "ok"
    /\ site = <<>>
    /\ proc[r].pc = "done"
    /\ Len(proc[r].urls) = 1
    /\ Len(log[r]) = 1
    /\ log[r][1].progress_percentage = Ratio(100, 1)

====
